---- MODULE Spec2Model ----
(***************************************************************************)
(* Model of eovsapy/gaincal2.py: reconstruction of the gain state and the   *)
(* FEM level from the stateframe store (get_gain_state, get_fem_level,      *)
(* get_fseqbandlist) and their application to correlator data               *)
(* (apply_gain_corr, get_gain_corr, apply_fem_level).                       *)
(*                                                                         *)
(* Instants are integer seconds (the "lv" ticks of the store).  Real-valued *)
(* attenuations are fixed-point integers, Scale units per dB, so that the   *)
(* means over dt samples and the medians are exact.  A linear factor        *)
(* 10^(g/20) is represented by its exponent g (amplitude dB, fixed point);  *)
(* the factor is 1 exactly when the exponent is 0.                          *)
(***************************************************************************)
EXTENDS Integers, Sequences, FiniteSets, TLC

\* ---- bounds of the model ------------------------------------------------
\* Antennas kept per telemetry tick (the code's nant, 15, scaled down).
NAnt == 2
\* Ticks stored around the observation.
NTicks == 3
\* Largest aggregation step dt, in seconds.
MaxDt == 2

Ants == 0..(NAnt - 1)
Pols == 0..1
None == 0                      \* dt = None: no aggregation requested

\* the value of a one-element set: Only({F(v) : v \in {e}}) is F(e) with e
\* computed once
Only(S) == CHOOSE x \in S : TRUE

Min(a, b) == IF a < b THEN a ELSE b
Max(a, b) == IF a > b THEN a ELSE b
Abs(a) == IF a < 0 THEN 0 - a ELSE a

RECURSIVE Gcd(_, _)
Gcd(a, b) == IF b = 0 THEN a ELSE Gcd(b, a % b)
RECURSIVE LcmUpTo(_)
LcmUpTo(n) == IF n <= 1 THEN 1 ELSE LET l == LcmUpTo(n - 1) IN (l * n) \div Gcd(l, n)
\* Fixed-point units per dB: every mean over dt <= MaxDt samples and every
\* median (a half of a sum of two samples) is a whole number of units.
Scale == 2 * LcmUpTo(MaxDt)

RECURSIVE SumSeq(_)
SumSeq(s) == IF s = <<>> THEN 0 ELSE Head(s) + SumSeq(Tail(s))

\* Python s[:n]
Take(s, n) == SubSeq(s, 1, Min(Max(n, 0), Len(s)))
\* Python s[first::step], first counted from 0
Stride(s, first, step) ==
    [k \in 1..((Len(s) - first + step - 1) \div step) |-> s[first + (k - 1) * step + 1]]

\* np.round of the half-integer x2/2: halves go to the even neighbour.
np_round2(x2) ==
    IF x2 % 2 = 0 THEN x2 \div 2
    ELSE LET f == (x2 - 1) \div 2 IN IF f % 2 = 0 THEN f ELSE f + 1

\* ---- the stateframe store -----------------------------------------------
\* One stored tick: its timestamp and one row per antenna, antenna-major.
\* A row holds the FEM attenuations, the FEM levels and the FEM clock (ms),
\* which is 0 when the antenna delivered no measurement.
T0 == 1000                     \* timestamp of the first tick of the observation

\* Profiles: "flat" holds one setting throughout, "high" is flat with 6 dB
\* more in the first HPol attenuator, "ramp" changes at every tick.
RowOf(prof, k, i, live) ==
    LET d == IF prof = "ramp" THEN k ELSE 0 IN
    [h1 |-> 5 + 2 * d + i + (IF prof = "high" THEN 6 ELSE 0), h2 |-> 3 + d, v1 |-> 4 + 3 * d + i, v2 |-> 2 + d + i,
     hlev |-> (1 + d + i) % 16, vlev |-> (2 + 2 * d + i) % 16,
     ms |-> IF live THEN 500 + k ELSE 0]

\* n ticks from timestamp base on; antenna i is dead at the ticks of dead[i].
Segment(base, n, prof, dead) ==
    [k \in 1..n |-> [ts |-> base + k - 1,
                     rows |-> [i \in Ants |-> RowOf(prof, k - 1, i, (k - 1) \notin dead[i])]]]

\* "select ... from fVxx_vD15 where Timestamp >= lo and Timestamp < / <= hi
\*  order by Timestamp": the rows of the ticks in the window, flattened.
Flat(ticks) ==
    [k \in 1..(Len(ticks) * NAnt) |->
        [Timestamp |-> ticks[(k - 1) \div NAnt + 1].ts,
         r |-> ticks[(k - 1) \div NAnt + 1].rows[(k - 1) % NAnt]]]

QueryWindow(st, lo, hi, inclusive) ==
    Flat(SelectSeq(st, LAMBDA k : k.ts >= lo /\ (k.ts < hi \/ (inclusive /\ k.ts = hi))))
\* "select top n ... where Timestamp >= lo order by Timestamp"
QueryTop(st, n, lo) == Take(Flat(SelectSeq(st, LAMBDA k : k.ts >= lo)), n)

\* column of a query result reshaped to (nt, nant): arr[t][i], t and i from 0
Reshape(data, F(_)) ==
    [t \in 0..((Len(data) \div NAnt) - 1) |-> [i \in Ants |-> F(data[t * NAnt + i + 1].r)]]
ColTimestamp(data) == [k \in 1..Len(data) |-> data[k].Timestamp]

\* ---- util.nearest_val_idx -------------------------------------------------
\* For each value of a, the (1-based) position in b of the value nearest to
\* it, the first such position on a tie.
nearest_val_idx(a, b) ==
    [k \in 1..Len(a) |->
        CHOOSE j \in 1..Len(b) :
            /\ \A m \in 1..Len(b) : Abs(a[k] - b[j]) <= Abs(a[k] - b[m])
            /\ \A m \in 1..(j - 1) : Abs(a[k] - b[m]) > Abs(a[k] - b[j])]

\* np.where(ms[:,i] == 0) and np.where(ms[:,i] != 0): ascending indices
RECURSIVE Where(_, _, _, _)
Where(ms, i, t, wantDead) ==
    IF t \notin DOMAIN ms THEN <<>>
    ELSE (IF (ms[t][i] = 0) = wantDead THEN <<t>> ELSE <<>>) \o Where(ms, i, t + 1, wantDead)

PosIn(s, v) == CHOOSE k \in 1..Len(s) : s[k] = v

\* Lines 300-311 / 146-155: replace the entries of a dead time step by those
\* of the nearest live one, for every antenna that has both kinds.
\* (faulty variant: the position within good is used as a time step, arr[idx] for
\*  arr[good[idx]])
Repair_noGood(arr, ms) ==
    [t \in DOMAIN arr |-> [i \in Ants |->
        LET bad == Where(ms, i, 0, TRUE)
            good == Where(ms, i, 0, FALSE)
            nt == Len(bad) + Len(good)
        IN IF ms[t][i] = 0 /\ Len(bad) # 0 /\ Len(bad) # nt
           THEN arr[nearest_val_idx(bad, good)[PosIn(bad, t)] - 1][i]
           ELSE arr[t][i]]]
Repair(arr, ms) ==
    [t \in DOMAIN arr |-> [i \in Ants |->
        LET bad == Where(ms, i, 0, TRUE)
            good == Where(ms, i, 0, FALSE)
            nt == Len(bad) + Len(good)
        IN IF ms[t][i] = 0 /\ Len(bad) # 0 /\ Len(bad) # nt
           THEN arr[good[nearest_val_idx(bad, good)[PosIn(bad, t)]]][i]
           ELSE arr[t][i]]]

\* ---- calibration header, kind 2: the base DCM attenuation table ---------
\* The buffer holds nbands rows of 2*nant columns, Ant1 H, Ant1 V, Ant2 H, ...
CalNames == {"A", "B", "C"}
CalBands(c) == IF c = "C" THEN 3 ELSE 2
read_cal(c) ==
    [b \in 0..(CalBands(c) - 1) |-> [col \in 0..(2 * NAnt - 1) |->
        10 + 4 * b + col + (IF c = "B" /\ b = 1 THEN (col + 1) * (col + 1) ELSE 0)]]
\* dcmattn.shape = (nbands, 15, 2); np.moveaxis(dcmattn, 0, 2): [ant][pol][band]
dcm_canonical(raw) ==
    [i \in Ants |-> [p \in Pols |-> [b \in 1..Cardinality(DOMAIN raw) |-> raw[b - 1][2 * i + p]]]]
NoTable == [i \in Ants |-> [p \in Pols |-> <<>>]]
NBands(dcmattn) == Len(dcmattn[0][0])

\* ---- outcomes of the collaborators during one call -----------------------
\* q1: the FEM query succeeds; cal: the calibration record found; dpp: the
\* DPPoffsetattn_on query fails / finds the offset off / finds it on;
\* q3: the DCMoffset_attn query succeeds; fseq: the FSeqList query succeeds.
Envs ==
    [q1 : BOOLEAN, cal : CalNames, dpp : {"fail", "off", "on"}, q3 : BOOLEAN, fseq : BOOLEAN]
\* one environment per control path
EnvPath(path, c) ==
    [q1 |-> path # "q1fail", cal |-> c,
     dpp |-> IF path = "dppfail" THEN "fail" ELSE IF path \in {"q1fail", "dppoff"} THEN "off" ELSE "on",
     q3 |-> path # "q3fail", fseq |-> path # "nofseq"]
Paths == {"q1fail", "dppfail", "dppoff", "q3fail", "nofseq", "fseqok"}

\* The DCM offset stored for band b (from 1) at timestamp ts (table vD50).
DcmOffsetAt(ts, b) == 2 * ((ts + b) % 3)

\* ---- get_fseqbandlist (lines 71-86) --------------------------------------
\* Opens a connection and never closes it.  On success it calls freq2dbname,
\* a name the module does not define (freq2bdname is the imported one), so
\* the call raises NameError; on failure it prints and returns None.
get_fseqbandlist(ok) ==
    [status |-> IF ok THEN "raised" ELSE "none",
     exc |-> IF ok THEN "NameError" ELSE "",
     opened |-> 1, closed |-> 0,
     log |-> IF ok THEN <<>> ELSE <<"fseq query failed">>]

\* Lines 333-380 / 183-226: the DPP offset part.  nt is the number of time
\* steps of the FEM query, noff the number of ticks of the offset query.
\* Gives the status, the exception, the connections the nested call opened
\* and the messages printed.  No path returns a table: dcm_off is None.
dcm_offset(env, nt, noff) ==
    IF env.dpp = "fail" THEN [status |-> "ok", exc |-> "", opened |-> 0, log |-> <<"Error reading DPPon state">>]
    ELSE IF env.dpp = "off" THEN [status |-> "ok", exc |-> "", opened |-> 0, log |-> <<>>]
    ELSE IF ~env.q3 THEN [status |-> "ok", exc |-> "", opened |-> 0, log |-> <<"Error reading DCM attenuations">>]
    ELSE IF noff # nt THEN [status |-> "raised", exc |-> "ValueError", opened |-> 0, log |-> <<>>]
    ELSE LET b == get_fseqbandlist(env.fseq) IN
         IF b.status = "raised" THEN [status |-> "raised", exc |-> b.exc, opened |-> b.opened, log |-> b.log]
         ELSE [status |-> "ok", exc |-> "", opened |-> b.opened, log |-> b.log \o <<"Error: No active fseq file.">>]

\* no call made, nothing returned
NoCall == [op |-> "none"]
NoRet == [status |-> "none"]

\* ---- shared pieces of get_gain_state and get_fem_level -------------------
\* Lines 253-258 / 116-121: the query window <<tstart, tend>>; with dt it is
\* widened by dt/2 on each side and rounded.
query_window(trange, dt) ==
    IF dt = None THEN <<trange[1], trange[2]>>
    ELSE <<np_round2(2 * trange[1] - dt), np_round2(2 * trange[2] + dt)>>

\* [nant, nt] order (the .T of lines 318-322 / 171-172): out[i] is a sequence
Transpose(arr) == [i \in Ants |-> [k \in 1..Cardinality(DOMAIN arr) |-> arr[k - 1][i]]]
\* np.mean(h[:new_n//15].reshape((nbins, dt, 15)), 1), in fixed point
mean_dt(arr, nbins, dt) ==
    [k \in 0..(nbins - 1) |-> [i \in Ants |->
        (SumSeq([d \in 1..dt |-> arr[k * dt + d - 1][i]]) * Scale) \div dt]]
Scaled(arr) == [t \in DOMAIN arr |-> [i \in Ants |-> arr[t][i] * Scale]]
NoSeries == [i \in Ants |-> <<>>]

\* ---- get_gain_state (lines 230-382) --------------------------------------
\* times (lines 279-286): the timestamp of the first sample of each dt bin,
\* data['Timestamp'][:new_n][::15*dt]
gain_times(ts, dt) ==
    IF dt # None
    THEN Stride(Take(ts, ((Len(ts) \div NAnt) \div dt) * NAnt * dt), 0, NAnt * dt)
    ELSE Stride(ts, 0, NAnt)

gain_query(st, w, relax) ==
    IF relax THEN QueryTop(st, (w[2] - w[1] - 1) * NAnt, w[1])
    ELSE QueryWindow(st, w[1], w[2], FALSE)

\* data is the result of the FEM query over the window w
gain_state_of(st, w, data, dt, relax, env) ==
    LET q == [table |-> "vD15", lo |-> w[1], hi |-> w[2], relax |-> relax]
        times == gain_times(ColTimestamp(data), dt)
        ms == Reshape(data, LAMBDA r : r.ms)
        nt == Len(data) \div NAnt
        nbins == IF dt # None THEN (Len(data) \div NAnt) \div dt ELSE nt
        Final(F(_)) ==
            Only({Transpose(IF dt # None THEN mean_dt(rep, nbins, dt) ELSE Scaled(rep)) :
                    rep \in {Repair(Reshape(data, F), ms)}})
        \* the offset query runs over [times[0], times[-1]], both included
        noff == Len(QueryWindow(st, times[1], times[Len(times)], TRUE)) \div NAnt
        off == dcm_offset(env, nt, noff)
        Out(status, exc, full, opened, closed, log) ==
            [status |-> status, exc |-> exc,
             times |-> IF full THEN times ELSE <<>>,
             h1 |-> IF full THEN Final(LAMBDA r : r.h1) ELSE NoSeries,
             h2 |-> IF full THEN Final(LAMBDA r : r.h2) ELSE NoSeries,
             v1 |-> IF full THEN Final(LAMBDA r : r.v1) ELSE NoSeries,
             v2 |-> IF full THEN Final(LAMBDA r : r.v2) ELSE NoSeries,
             dcmattn |-> IF full THEN dcm_canonical(read_cal(env.cal)) ELSE NoTable,
             dcmoff |-> None,       \* no path sets a table: see dcm_offset
             opened |-> opened, closed |-> closed, queries |-> <<q>>, log |-> log]
    IN IF ~env.q1
       THEN \* line 325: return {} with the connection still open
            Out("empty", "", FALSE, 1, 0, <<"Error reading FEM attenuations">>)
       ELSE IF times = <<>>
       THEN \* line 288: times[[0,-1]] of an empty array
            Out("raised", "IndexError", FALSE, 1, 0, <<>>)
       ELSE IF off.status = "raised"
       THEN Out("raised", off.exc, FALSE, 1 + off.opened, 0, off.log)
       ELSE Out("ok", "", TRUE, 1 + off.opened, 1, off.log)

get_gain_state(st, trange, dt, relax, env) ==
    Only({gain_state_of(st, w, data, dt, relax, env) :
            w \in {query_window(trange, dt)},
            data \in {gain_query(st, query_window(trange, dt), relax)}})

\* ---- get_fem_level (lines 88-228) ----------------------------------------
fem_times(ts, dt) ==
    IF dt # None
    THEN Stride(Take(ts, ((Len(ts) \div NAnt) \div dt) * NAnt * dt), (NAnt * dt) \div 2, NAnt * dt)
    ELSE Stride(ts, 0, NAnt)

\* Lines 108-114: the share of each value in seq, in fixed point (n = len(seq)
\* additions of 1/n)
proportion_counts(seq) ==
    [l \in {seq[k] : k \in DOMAIN seq} |->
        Cardinality({k \in DOMAIN seq : seq[k] = l}) * Scale]
proportion(seq) ==
    [l \in {seq[k] : k \in DOMAIN seq} |->
        (Cardinality({k \in DOMAIN seq : seq[k] = l}) * Scale) \div Len(seq)]
\* Lines 162-169: one dict per bin and antenna
proportion_dt(arr, nbins, dt) ==
    [k \in 0..(nbins - 1) |-> [i \in Ants |->
        proportion([d \in 1..dt |-> arr[k * dt + d - 1][i]])]]

fem_level_of(w, data, dt, env) ==
    LET q == [table |-> "vD15", lo |-> w[1], hi |-> w[2], relax |-> FALSE]
        times == fem_times(ColTimestamp(data), dt)
        ms == Reshape(data, LAMBDA r : r.ms)
        nt == Len(data) \div NAnt
        nbins == IF dt # None THEN (Len(data) \div NAnt) \div dt ELSE nt
        Final(F(_)) ==
            Only({Transpose(IF dt # None THEN proportion_dt(rep, nbins, dt) ELSE rep) :
                    rep \in {Repair(Reshape(data, F), ms)}})
        off == dcm_offset(env, nt, nt)
        Out(status, exc, full, opened, closed, log) ==
            [status |-> status, exc |-> exc,
             times |-> IF full THEN times ELSE <<>>,
             hlev |-> IF full THEN Final(LAMBDA r : r.hlev) ELSE NoSeries,
             vlev |-> IF full THEN Final(LAMBDA r : r.vlev) ELSE NoSeries,
             dcmattn |-> IF full THEN dcm_canonical(read_cal(env.cal)) ELSE NoTable,
             dcmoff |-> None,       \* no path sets a table: see dcm_offset
             opened |-> opened, closed |-> closed, queries |-> <<q>>, log |-> log]
    IN IF ~env.q1
       THEN \* line 175: return {} with the connection still open
            Out("empty", "", FALSE, 1, 0, <<"Error reading FEM levels">>)
       ELSE IF off.status = "raised"
       THEN Out("raised", off.exc, FALSE, 1 + off.opened, 0, off.log)
       ELSE Out("ok", "", TRUE, 1 + off.opened, 1, off.log)

get_fem_level(st, trange, dt, env) ==
    Only({fem_level_of(w, data, dt, env) :
            w \in {query_window(trange, dt)},
            data \in {QueryWindow(st, query_window(trange, dt)[1], query_window(trange, dt)[2], TRUE)}})

\* ---- numpy helpers of the correctors ------------------------------------
RECURSIVE Insert(_, _)
Insert(v, s) ==
    IF s = <<>> THEN <<v>>
    ELSE IF v <= Head(s) THEN <<v>> \o s ELSE <<Head(s)>> \o Insert(v, Tail(s))
RECURSIVE np_sort(_)
np_sort(s) == IF s = <<>> THEN <<>> ELSE Insert(Head(s), np_sort(Tail(s)))
\* twice np.median(s): the middle value, or the mean of the two middle ones
median2(s) ==
    LET t == np_sort(s)
        n == Len(s)
    IN IF n % 2 = 1 THEN 2 * t[(n + 1) \div 2] ELSE t[n \div 2] + t[n \div 2 + 1]

\* Lines 409-410 / 550-551: the cadence of the data in seconds; 1 s is None
cadence(time) ==
    LET d == np_round2(median2([k \in 1..(Len(time) - 1) |-> time[k + 1] - time[k]]))
    IN IF d = 1 THEN None ELSE d

\* Line 571: blist = (fghz*2 - 1).astype(int) - 1, fghz given in quarters of
\* a GHz
band_index(f4) == ((f4 - 2) \div 2) - 1

\* ---- correlator data -----------------------------------------------------
\* A tensor element is the caller's original value times 10^(e/(20*Scale)),
\* after the receiver background was subtracted from it when bg holds.
Baselines == {<<i, j>> \in Ants \X Ants : i < j}
Elem(e, bg) == [e |-> e, bg |-> bg]
Tensor(I, n, nf, nt, e) == [i \in I |-> [pp \in 0..(n - 1) |-> [f \in 1..nf |-> [t \in 1..nt |-> Elem(e, FALSE)]]]]
\* the record read from an IDB file: times, frequencies, x, a, p, p2
DataRecord(time, fghz, e) ==
    [time |-> time, fghz |-> fghz,
     x |-> Tensor(Baselines, 4, Len(fghz), Len(time), e),
     a |-> Tensor(Ants, 4, Len(fghz), Len(time), e),
     p |-> Tensor(Ants, 2, Len(fghz), Len(time), e),
     p2 |-> Tensor(Ants, 2, Len(fghz), Len(time), e)]
NoData == [time |-> <<>>, fghz |-> <<>>]

\* copy.deepcopy(data): a new object, not an alias of the caller's
\* (faulty variant: cdata = data, the same object)
copy_alias(d) == [obj |-> d, alias |-> TRUE]
deepcopy(d) == [obj |-> d, alias |-> FALSE]
\* the caller's object after the callee changed its copy into changed
caller_view(d, c, changed) == IF c.alias THEN changed ELSE d

\* t *= g[..., idx]: the exponent G(i, pp, f, t) is added to each element
Scaled_by(tensor, G(_, _, _, _)) ==
    [i \in DOMAIN tensor |-> [pp \in DOMAIN tensor[i] |-> [f \in DOMAIN tensor[i][pp] |->
        [t \in DOMAIN tensor[i][pp][f] |->
            Elem(tensor[i][pp][f][t].e + G(i, pp, f, t), tensor[i][pp][f][t].bg)]]]]

DaySec == 86400

\* ---- reference resolution of apply_gain_corr (lines 516-539) ------------
\* Line 519: trange[0], 10:00 UT on the date of the first sample
search_start(time) == (time[1] \div DaySec) * DaySec + 10 * 3600
\* Lines 530 / 536: 13:30 UT on that date
fallback_tref(time) == (time[1] \div DaySec) * DaySec + 13 * 3600 + 30 * 60
\* Lines 526 / 532 / 538 / 620: the window read at the reference time
ref_window(tref) == <<tref, tref + 61>>

RECURSIVE SumOpened(_)
SumOpened(calls) == IF calls = <<>> THEN 0 ELSE Head(calls).opened + SumOpened(Tail(calls))
RECURSIVE SumClosed(_)
SumClosed(calls) == IF calls = <<>> THEN 0 ELSE Head(calls).closed + SumClosed(Tail(calls))
RECURSIVE AllQueries(_)
AllQueries(calls) == IF calls = <<>> THEN <<>> ELSE Head(calls).queries \o AllQueries(Tail(calls))
RECURSIVE AllLogs(_)
AllLogs(calls) == IF calls = <<>> THEN <<>> ELSE Head(calls).log \o AllLogs(Tail(calls))

\* Line 534: the reference is too old
(* faulty variant: the age limit is never applied *)
too_old_never(t0, tref) == FALSE
too_old(t0, tref) == t0 - tref > 2 * DaySec

\* env.find is what pa.findfile does: ok = FALSE when it raises, else scans
\* holds the start times of the scans found.  calls lists the
\* get_gain_state calls made, in order.
\* g1 is the state read in the try block (when a scan was found), g2 the one
\* the relaxed query at 13:30 gives
reference_of(time, env, g1, g2) ==
    LET t0 == search_start(time)
        found == env.find.ok /\ env.find.scans # <<>>
        tref1 == env.find.scans[1] + 60
        tref2 == fallback_tref(time)
        inTry == found /\ g1.status # "raised"
        calls1 == IF found THEN <<g1>> ELSE <<>>
        \* after the try / except of lines 521-533
        tref == IF inTry THEN tref1 ELSE tref2
        raised1 == ~inTry /\ g2.status = "raised"
        again == ~raised1 /\ too_old(t0, tref)
        calls == (IF inTry THEN <<g1>> ELSE calls1 \o <<g2>>) \o (IF again THEN <<g2>> ELSE <<>>)
    IN [status |-> IF raised1 \/ (again /\ g2.status = "raised") THEN "raised" ELSE "ok",
        exc |-> IF raised1 \/ (again /\ g2.status = "raised") THEN g2.exc ELSE "",
        gs |-> IF inTry /\ ~again THEN g1 ELSE g2,
        origin |-> IF inTry /\ ~again THEN "scan" ELSE "relax",
        tref |-> IF again THEN tref2 ELSE tref,
        calls |-> calls]

resolve_reference(st, time, env) ==
    Only({reference_of(time, env, g1, g2) :
            g1 \in {IF env.find.ok /\ env.find.scans # <<>>
                    THEN get_gain_state(st, ref_window(env.find.scans[1] + 60), None, FALSE, env.ref)
                    ELSE NoRet},
            g2 \in {get_gain_state(st, ref_window(fallback_tref(time)), None, TRUE, env.relax)}})

\* ---- apply_gain_corr (lines 501-602) -------------------------------------
\* Lines 560-564: the antenna gain in dB (fixed point) of antenna i,
\* polarization p, band b (from 1) at time step t.  ref is the reference
\* state after the medians of lines 542-545, or the source state itself
\* after a band-count mismatch (line 558).
\* (faulty variant: the reference attenuations are added instead of subtracted)
gain_db_plus(src, ref, same, i, p, b, t) ==
    LET s1 == IF p = 0 THEN src.h1[i][t] + src.h2[i][t] ELSE src.v1[i][t] + src.v2[i][t]
        r1 == IF same THEN s1
              ELSE IF p = 0 THEN median2(ref.h1[i]) \div 2 + median2(ref.h2[i]) \div 2
              ELSE median2(ref.v1[i]) \div 2 + median2(ref.v2[i]) \div 2
    IN s1 + r1 + (src.dcmattn[i][p][b] - ref.dcmattn[i][p][b]) * Scale
\* (faulty variant: the medians are taken even when the reference was replaced by
\*  the source state)
gain_db_medians(src, ref, same, i, p, b, t) ==
    LET s1 == IF p = 0 THEN src.h1[i][t] + src.h2[i][t] ELSE src.v1[i][t] + src.v2[i][t]
        r1 == IF p = 0 THEN median2(ref.h1[i]) \div 2 + median2(ref.h2[i]) \div 2
              ELSE median2(ref.v1[i]) \div 2 + median2(ref.v2[i]) \div 2
    IN s1 - r1 + (src.dcmattn[i][p][b] - ref.dcmattn[i][p][b]) * Scale
gain_db(src, ref, same, i, p, b, t) ==
    LET s1 == IF p = 0 THEN src.h1[i][t] + src.h2[i][t] ELSE src.v1[i][t] + src.v2[i][t]
        r1 == IF same THEN s1
              ELSE IF p = 0 THEN median2(ref.h1[i]) \div 2 + median2(ref.h2[i]) \div 2
              ELSE median2(ref.v1[i]) \div 2 + median2(ref.v2[i]) \div 2
    IN s1 - r1 + (src.dcmattn[i][p][b] - ref.dcmattn[i][p][b]) * Scale

\* Lines 575-578: the polarizations of the two antennas in product pp
PolOfFirst(pp) == IF pp \in {0, 2} THEN 0 ELSE 1
\* (faulty variant: the second antenna is given the polarization of the first)
PolOfSecond_asFirst(pp) == IF pp \in {0, 2} THEN 0 ELSE 1
PolOfSecond(pp) == IF pp \in {0, 3} THEN 0 ELSE 1

\* Lines 566-594: the corrected copy of data, given the antenna gain
\* ag(i, p, f, t) of data channel f and source time step t
corrected(data, idx, ag(_, _, _, _)) ==
    [time |-> data.time, fghz |-> data.fghz,
     x |-> Scaled_by(data.x, LAMBDA bl, pp, f, t :
              ag(bl[1], PolOfFirst(pp), f, idx[t]) + ag(bl[2], PolOfSecond(pp), f, idx[t])),
     p |-> Scaled_by(data.p, LAMBDA i, pp, f, t : 2 * ag(i, pp, f, idx[t])),
     a |-> Scaled_by(data.a, LAMBDA i, pp, f, t :
              IF pp < 2 THEN 2 * ag(i, pp, f, idx[t])
              ELSE ag(i, 0, f, idx[t]) + ag(i, 1, f, idx[t])),
     p2 |-> Scaled_by(data.p2, LAMBDA i, pp, f, t : 4 * ag(i, pp, f, idx[t]))]

\* tref is <<>> for None, else <<t>>.  env: find, ref, relax, src.
gain_corrected(data, tref, rr, src) ==
    LET bound == tref = <<>>           \* ref_gs is assigned under "if tref is None" only
        refcalls == IF bound THEN rr.calls ELSE <<>>
        nbands == NBands(src.dcmattn)
        mismatch == nbands # NBands(rr.gs.dcmattn)
        ref == IF mismatch THEN src ELSE rr.gs
        blist == [f \in 1..Len(data.fghz) |-> band_index(data.fghz[f])]
        idx == nearest_val_idx(data.time, src.times)
        cdata == deepcopy(data)
        out == corrected(cdata.obj, idx,
                   LAMBDA i, p, f, t : gain_db(src, ref, mismatch, i, p, blist[f] + 1, t))
        exc == IF ~bound THEN "UnboundLocalError"       \* line 542
               ELSE IF rr.status = "raised" THEN rr.exc
               ELSE IF rr.gs.status = "empty" THEN "KeyError"      \* line 542
               ELSE IF src.status = "raised" THEN src.exc
               ELSE IF src.status = "empty" THEN "KeyError"        \* line 554
               ELSE IF \E f \in DOMAIN blist : blist[f] >= nbands THEN "IndexError"
               ELSE ""
        srcCalled == bound /\ rr.status = "ok" /\ rr.gs.status # "empty"
        calls == refcalls \o (IF srcCalled THEN <<src>> ELSE <<>>)
    IN [status |-> IF exc = "" THEN "ok" ELSE "raised", exc |-> exc,
        cdata |-> IF exc = "" THEN out ELSE NoData,
        input_after |-> IF exc = "" THEN caller_view(data, cdata, out) ELSE data,
        origin |-> IF bound /\ rr.status = "ok" THEN rr.origin ELSE "none",
        tref |-> IF bound /\ rr.status = "ok" THEN rr.tref ELSE 0,
        ref_gs |-> IF bound /\ rr.status = "ok" THEN rr.gs ELSE NoRet,
        src_gs |-> IF srcCalled THEN src ELSE NoRet,
        opened |-> SumOpened(calls), closed |-> SumClosed(calls),
        queries |-> AllQueries(calls),
        log |-> AllLogs(calls) \o
                (IF exc = "" /\ mismatch
                 THEN <<"GAINCAL2 Warning: Data and reference gain states are not compatible. No correction applied!">>
                 ELSE <<>>)]

apply_gain_corr(st, data, tref, env) ==
    Only({gain_corrected(data, tref, rr, src) :
            rr \in {resolve_reference(st, data.time, env)},
            src \in {get_gain_state(st, <<data.time[1], data.time[Len(data.time)]>>,
                                    cadence(data.time), FALSE, env.src)}})

\* ---- get_gain_corr (lines 604-638) ---------------------------------------
\* env: reftime (the Timestamp of the calibration record of kind 8), ref, src
gain_table(ref, src) ==
    LET nbands == NBands(src.dcmattn)
        exc == IF ref.status = "raised" THEN ref.exc
               ELSE IF ref.status = "empty" THEN "KeyError"        \* line 623
               ELSE IF src.status = "raised" THEN src.exc
               ELSE IF src.status = "empty" THEN "KeyError"        \* line 630
               ELSE IF NBands(ref.dcmattn) < nbands THEN "IndexError"   \* line 635
               ELSE ""
        calls == <<ref>> \o (IF ref.status = "ok" THEN <<src>> ELSE <<>>)
    IN [status |-> IF exc = "" THEN "ok" ELSE "raised", exc |-> exc,
        antgain |-> IF exc # "" THEN <<>>
                    ELSE [i \in Ants |-> [p \in Pols |-> [b \in 1..nbands |->
                            [k \in 1..Len(src.times) |-> gain_db(src, ref, FALSE, i, p, b, k)]]]],
        times |-> IF exc = "" THEN src.times ELSE <<>>,
        ref_gs |-> ref,
        src_gs |-> IF ref.status = "ok" THEN src ELSE NoRet,
        opened |-> SumOpened(calls), closed |-> SumClosed(calls),
        queries |-> AllQueries(calls), log |-> AllLogs(calls)]

get_gain_corr(st, trange, tref, env) ==
    Only({gain_table(ref, src) :
            ref \in {get_gain_state(st, ref_window(IF tref = <<>> THEN env.reftime ELSE tref[1]),
                                    None, FALSE, env.ref)},
            src \in {get_gain_state(st, trange, None, FALSE, env.src)}})

\* ---- attenuation curves (attncal) ----------------------------------------
\* Antennas that carry a measured curve (the code's 13 of 15).
NSolar == 1
Solar == 0..(NSolar - 1)
\* What a GAINCALTEST measurement of date t over the frequencies fghz holds:
\* 8 levels per antenna, polarization and frequency.
MeasuredAttn(m, i, p, fval) == 2 * (m + 1) + i + 3 * p + fval
AttnRecord(t, fghz) ==
    [time |-> t, fghz |-> fghz,
     attn |-> [m \in 0..7 |-> [i \in Solar |-> [p \in Pols |->
                 [k \in 1..Len(fghz) |-> MeasuredAttn(m, i, p, fghz[k])]]]]]

\* util.common_val_idx: the positions (from 1) in a and in b of the values
\* the two lists share, in ascending order of value
common_val_idx(a, b) ==
    LET common == np_sort(SelectSeq(a, LAMBDA v : \E k \in DOMAIN b : b[k] = v))
    IN <<[k \in DOMAIN common |-> PosIn(a, common[k])],
         [k \in DOMAIN common |-> PosIn(b, common[k])]>>

\* Lines 435-440: the 16-level curve a[l, i, p, f] over the data channels f
\* (faulty variant: level 15 is left as extended from level 14)
RECURSIVE curve_extended(_, _, _, _, _, _, _)
curve_extended(attn, idx1, idx2, l, i, p, f) ==
    IF l >= 9 THEN curve_extended(attn, idx1, idx2, l - 1, i, p, f) + 2
    ELSE IF l >= 1 /\ \E k \in DOMAIN idx1 : idx1[k] = f
    THEN attn.attn[l - 1][i][p][idx2[PosIn(idx1, f)]]
    ELSE 0
RECURSIVE curve(_, _, _, _, _, _, _)
curve(attn, idx1, idx2, l, i, p, f) ==
    IF l = 15 THEN 62
    ELSE IF l >= 9 THEN curve(attn, idx1, idx2, l - 1, i, p, f) + 2
    ELSE IF l >= 1 /\ \E k \in DOMAIN idx1 : idx1[k] = f
    THEN attn.attn[l - 1][i][p][idx2[PosIn(idx1, f)]]
    ELSE 0

\* ---- apply_fem_level (lines 384-499) -------------------------------------
\* Lines 441-456: the gain in dB (fixed point) of solar antenna i and
\* polarization p at the k-th common frequency and time step m.  The curve
\* is read at channel idx2[k].
fem_gain(lev, dt, attn, idx1, idx2, i, p, k, m) ==
    LET l == IF p = 0 THEN lev.hlev[i][m] ELSE lev.vlev[i][m]
    IN IF dt # None
       THEN SumSeq([n \in 1..16 |->
                IF (n - 1) \in DOMAIN l THEN l[n - 1] * curve(attn, idx1, idx2, n - 1, i, p, idx2[k]) ELSE 0])
       ELSE curve(attn, idx1, idx2, l, i, p, idx2[k]) * Scale

\* Lines 473-478: the receiver background is subtracted from p and from the
\* aa / bb terms of a, for the solar antennas
minus_bgd(tensor, npol) ==
    [i \in DOMAIN tensor |-> [pp \in DOMAIN tensor[i] |-> [f \in DOMAIN tensor[i][pp] |->
        [t \in DOMAIN tensor[i][pp][f] |->
            IF i \in Solar /\ pp < npol THEN Elem(tensor[i][pp][f][t].e, TRUE)
            ELSE tensor[i][pp][f][t]]]]]

\* sql is the stored curve (<<>> when there is none); gctime is <<>> for
\* None.  env: lev (the collaborators of get_fem_level), sqlok (the stored
\* curve can be read), meas (GAINCALTEST scans exist for the date), afghz
\* (the frequencies of the measurement).
level_corrected(sql, data, skycal, gctime, env, lev) ==
    LET gct == IF gctime = <<>> THEN data.time[1] ELSE gctime[1]
        dt == cadence(data.time)
        cdata == deepcopy(data)
        nf == Len(data.fghz)
        nt == Len(lev.times)
        \* lines 420-427
        readok == env.sqlok /\ sql # <<>>
        stale == readok /\ gct - sql[1].time > DaySec
        measured == AttnRecord((gct \div DaySec) * DaySec, env.afghz)
        needMeas == ~readok \/ stale
        attn == IF needMeas THEN measured ELSE sql[1]
        wrote == stale /\ env.meas
        cv == common_val_idx(data.fghz, attn.fghz)
        idx1 == cv[1]
        idx2 == cv[2]
        idx == nearest_val_idx(data.time, lev.times)
        ag(i, p, f, m) ==
            IF i \in Solar /\ \E k \in DOMAIN idx1 : idx1[k] = f
            THEN fem_gain(lev, dt, attn, idx1, idx2, i, p, PosIn(idx1, f), m)
            ELSE 0
        sub == IF skycal
               THEN [cdata.obj EXCEPT !.p = minus_bgd(cdata.obj.p, 2), !.a = minus_bgd(cdata.obj.a, 2)]
               ELSE cdata.obj
        out == corrected(sub, idx, ag)
        exc == IF lev.status = "raised" THEN lev.exc
               ELSE IF lev.status = "empty" THEN ""
               ELSE IF needMeas /\ ~env.meas THEN "IndexError"     \* get_attncal(gctime)[0]
               ELSE IF (dt = None \/ nt > 0) /\ \E k \in DOMAIN idx2 : idx2[k] > nf
                    THEN "IndexError"                              \* a[..., idx2[k]]
               ELSE IF nt = 0 THEN "ValueError"                    \* nearest value of an empty list
               ELSE ""
        skipped == lev.status = "empty"
    IN [status |-> IF exc = "" THEN "ok" ELSE "raised", exc |-> exc,
        cdata |-> IF exc # "" THEN NoData ELSE IF skipped THEN cdata.obj ELSE out,
        input_after |-> IF exc = "" /\ ~skipped THEN caller_view(data, cdata, out) ELSE data,
        skipped |-> skipped,
        a |-> IF exc = "" /\ ~skipped
              THEN [l \in 0..15 |-> [i \in Solar |-> [p \in Pols |-> [f \in 1..nf |->
                       curve(attn, idx1, idx2, l, i, p, f)]]]]
              ELSE <<>>,
        measured |-> lev.status = "ok" /\ needMeas,
        sql_before |-> sql,
        sql_after |-> IF lev.status = "ok" /\ wrote THEN <<measured>> ELSE sql,
        opened |-> lev.opened, closed |-> lev.closed, queries |-> lev.queries,
        log |-> lev.log \o
                (IF skipped
                 THEN <<"APPLY_FEM_LEVEL: No GAINCALTEST scans for this date, so no FEM level correction applied.">>
                 ELSE <<>>)]

apply_fem_level(st, sql, data, skycal, gctime, env) ==
    Only({level_corrected(sql, data, skycal, gctime, env, lev) :
            lev \in {get_fem_level(st, <<data.time[1], data.time[Len(data.time)]>>,
                                   cadence(data.time), env.lev)}})

\* ---- state ---------------------------------------------------------------
VARIABLES
    store,     \* the stateframe store: the stored ticks, by timestamp
    conns,     \* store connections opened and not closed so far
    call,      \* the operation called last and its arguments
    ret,       \* what that call returned, or that it raised
    attnsql    \* the stored attenuation curve, <<>> when there is none

vars == <<store, conns, call, ret, attnsql>>

\* Dead time steps per antenna: every subset occurs for antenna 0, every
\* complement for antenna 1, and a third antenna is always live; one store
\* per profile has no dead sample at all.
DeadPattern(D) ==
    [i \in Ants |-> IF i % 3 = 0 THEN D ELSE IF i % 3 = 1 THEN (0..(NTicks - 1)) \ D ELSE {}]
AllLive == [i \in Ants |-> {}]
ObsStores ==
    {Segment(T0, NTicks, prof, dead) :
        prof \in {"flat", "ramp"},
        dead \in {AllLive} \cup {DeadPattern(D) : D \in SUBSET (0..(NTicks - 1))}}
Windows == {<<a, b>> : a \in (T0 - 1)..(T0 + 1), b \in (T0 + 1)..(T0 + NTicks)}
Dts == {None} \cup 1..MaxDt


InitAssembler ==
    /\ store \in ObsStores
    /\ conns = 0
    /\ call = NoCall
    /\ ret = NoRet
    /\ attnsql = <<>>

Returned(r) ==
    /\ ret' = r
    /\ conns' = conns + r.opened - r.closed

\* A call starts when the caller holds no earlier result; a caller that finds
\* a connection left open stops calling.
CanCall == call = NoCall /\ conns = 0

GetGainState(trange, dt, relax, env) ==
    /\ CanCall
    /\ relax => query_window(trange, dt)[2] - query_window(trange, dt)[1] >= 1
    /\ call' = [op |-> "get_gain_state", trange |-> trange, dt |-> dt, relax |-> relax, env |-> env]
    /\ \E r \in {get_gain_state(store, trange, dt, relax, env)} : Returned(r)
    /\ UNCHANGED <<store, attnsql>>

GetFemLevel(trange, dt, env) ==
    /\ CanCall
    /\ call' = [op |-> "get_fem_level", trange |-> trange, dt |-> dt, relax |-> FALSE, env |-> env]
    /\ \E r \in {get_fem_level(store, trange, dt, env)} : Returned(r)
    /\ UNCHANGED <<store, attnsql>>

GetFseqBandlist(ok) ==
    /\ CanCall
    /\ call' = [op |-> "get_fseqbandlist", ok |-> ok]
    /\ Returned(get_fseqbandlist(ok))
    /\ UNCHANGED <<store, attnsql>>

\* The caller drops the returned state; connections left open stay open.
Discard ==
    /\ call # NoCall
    /\ call' = NoCall
    /\ ret' = NoRet
    /\ UNCHANGED <<store, conns, attnsql>>

\* one environment per control path, all with calibration record "A"
AssemblerEnvs == {EnvPath(path, "A") : path \in Paths}

NextAssembler ==
    \/ \E trange \in Windows, dt \in Dts, relax \in BOOLEAN, env \in AssemblerEnvs :
          GetGainState(trange, dt, relax, env)
    \/ \E trange \in Windows, dt \in Dts, env \in AssemblerEnvs :
          GetFemLevel(trange, dt, env)
    \/ \E ok \in BOOLEAN : GetFseqBandlist(ok)
    \/ Discard

SpecAssembler == InitAssembler /\ [][NextAssembler]_vars

\* ---- the correctors -------------------------------------------------------
\* Ticks stored in each reference window.
RefTicks == 2

ObsDay == (T0 \div DaySec) * DaySec
\* start times of PHASECAL scans: in the afternoon of the observation's
\* date, two days before its morning, and three days before
ScanToday == ObsDay + 17 * 3600
ScanOld == ObsDay - 2 * DaySec + 9 * 3600
ScanOlder == ObsDay - 3 * DaySec + 12 * 3600
Finds ==
    {[ok |-> FALSE, scans |-> <<>>]} \cup
    {[ok |-> TRUE, scans |-> sc] : sc \in {<<>>, <<ScanToday>>, <<ScanOld, ScanToday>>, <<ScanOlder>>}}

\* the ticks around the observation, in the windows read one minute after
\* each scan, and from 13:30 UT on; ascending timestamps
CorrStore(obsprof, refprof, scanTicks, fallbackTicks) ==
    (IF scanTicks
     THEN Segment(ScanOlder + 60, RefTicks, refprof, AllLive) \o Segment(ScanOld + 60, RefTicks, refprof, AllLive)
     ELSE <<>>)
    \o Segment(T0, NTicks, obsprof, AllLive)
    \o (IF fallbackTicks THEN Segment(ObsDay + 13 * 3600 + 30 * 60, RefTicks, refprof, AllLive) ELSE <<>>)
    \o (IF scanTicks THEN Segment(ScanToday + 60, RefTicks, refprof, AllLive) ELSE <<>>)
CorrStores ==
    {CorrStore(o, r, sc, fb) : o \in {"flat", "high", "ramp"}, r \in {"flat", "ramp"},
                               sc \in BOOLEAN, fb \in BOOLEAN}

\* the observations: n samples every cad seconds from T0 on, two channels
\* at 1.0 and 1.5 GHz (bands 0 and 1)
DataTimes(cad) ==
    {[k \in 1..n |-> T0 + (k - 1) * cad] : n \in {m \in 2..3 : (m - 1) * cad <= NTicks}}
DataSet == {DataRecord(time, <<4, 6>>, 0) : time \in UNION {DataTimes(cad) : cad \in 1..MaxDt}}

CorrPaths == {"q1fail", "dppoff", "fseqok"}
CalPairs == {<<"A", "A">>, <<"A", "B">>, <<"A", "C">>, <<"C", "A">>}
GainEnvs ==
    {[find |-> f, ref |-> EnvPath(rp, c[1]), relax |-> EnvPath(xp, c[1]), src |-> EnvPath(sp, c[2])] :
        f \in Finds, rp \in CorrPaths, xp \in {"q1fail", "dppoff"}, sp \in CorrPaths, c \in CalPairs}
DefaultEnv == CHOOSE e \in GainEnvs : TRUE

StoredCurves ==
    {<<>>, <<AttnRecord(ObsDay, <<4, 6>>)>>, <<AttnRecord(ObsDay - 3 * DaySec, <<4, 6>>)>>}
\* frequencies of a measured curve: those of the data, one of them only,
\* or one more below them
CurveFreqs == {<<4, 6>>, <<6>>, <<3, 4, 6>>}
FemEnvs ==
    [lev : {EnvPath(q, "A") : q \in CorrPaths}, sqlok : BOOLEAN, meas : BOOLEAN, afghz : CurveFreqs]

InitCorrector ==
    /\ store \in CorrStores
    /\ attnsql \in StoredCurves
    /\ attnsql # <<>> => store = CorrStore("ramp", "flat", TRUE, TRUE)
    /\ conns = 0
    /\ call = NoCall
    /\ ret = NoRet

ApplyGainCorr(data, tref, env) ==
    /\ CanCall
    /\ call' = [op |-> "apply_gain_corr", data |-> data, tref |-> tref, env |-> env]
    /\ \E r \in {apply_gain_corr(store, data, tref, env)} : Returned(r)
    /\ UNCHANGED <<store, attnsql>>

GetGainCorr(trange, tref, env) ==
    /\ CanCall
    /\ call' = [op |-> "get_gain_corr", trange |-> trange, tref |-> tref, env |-> env]
    /\ \E r \in {get_gain_corr(store, trange, tref, env)} : Returned(r)
    /\ UNCHANGED <<store, attnsql>>

ApplyFemLevel(data, skycal, gctime, env) ==
    /\ CanCall
    /\ call' = [op |-> "apply_fem_level", data |-> data, skycal |-> skycal, gctime |-> gctime, env |-> env]
    /\ \E r \in {apply_fem_level(store, attnsql, data, skycal, gctime, env)} :
          Returned(r) /\ attnsql' = r.sql_after
    /\ UNCHANGED store

\* the arguments of the calls: tref is <<>> for None; the environment of
\* get_gain_corr holds the Timestamp of the reference calibration record
NoTref == {<<>>}
GivenTrefs == {<<ScanToday + 60>>}
TableTrefs == {<<>>, <<ScanToday + 60>>, <<T0>>}
TableRanges == {<<T0, T0 + NTicks>>}
TableEnvs ==
    {[reftime |-> rt, ref |-> EnvPath(rp, c[1]), src |-> EnvPath(sp, c[2])] :
        rt \in {ScanToday + 60, ScanOld + 60}, rp \in CorrPaths, sp \in CorrPaths, c \in CalPairs}
GcTimes == {<<>>, <<T0 + DaySec>>}

NextCorrector ==
    \/ \E data \in DataSet, tref \in NoTref, env \in GainEnvs : ApplyGainCorr(data, tref, env)
    \/ \E data \in DataSet, tref \in GivenTrefs, env \in {DefaultEnv} : ApplyGainCorr(data, tref, env)
    \/ \E trange \in TableRanges, tref \in TableTrefs, env \in TableEnvs :
          GetGainCorr(trange, tref, env)
    \/ \E data \in DataSet, skycal \in BOOLEAN, gctime \in GcTimes, env \in FemEnvs :
          ApplyFemLevel(data, skycal, gctime, env)
    \/ Discard

SpecCorrector == InitCorrector /\ [][NextCorrector]_vars

\* ---- properties of the assemblers -------------------------------------------
IsAssembler == call.op \in {"get_gain_state", "get_fem_level"}
TickAt(ts) == CHOOSE k \in {store[m] : m \in DOMAIN store} : k.ts = ts
LiveAt(ts, i) == TickAt(ts).rows[i].ms # 0
\* what the store holds for antenna i at ts, in the units of the result
RawVals(ts, i) ==
    LET r == TickAt(ts).rows[i] IN
    IF call.op = "get_gain_state"
    THEN <<r.h1 * Scale, r.h2 * Scale, r.v1 * Scale, r.v2 * Scale>>
    ELSE <<r.hlev, r.vlev>>
\* what the call returned for antenna i at its k-th time step
RetVals(i, k) ==
    IF call.op = "get_gain_state"
    THEN <<ret.h1[i][k], ret.h2[i][k], ret.v1[i][k], ret.v2[i][k]>>
    ELSE <<ret.hlev[i][k], ret.vlev[i][k]>>
RetSteps == 1..Len(ret.times)
\* among the returned steps where antenna i is live, the one nearest in time
\* to step k, the earlier one when two are equally near
NearestLive(i, k) ==
    CHOOSE g \in RetSteps :
        /\ LiveAt(ret.times[g], i)
        /\ \A m \in RetSteps : LiveAt(ret.times[m], i) =>
              \/ Abs(ret.times[m] - ret.times[k]) > Abs(ret.times[g] - ret.times[k])
              \/ Abs(ret.times[m] - ret.times[k]) = Abs(ret.times[g] - ret.times[k]) /\ g <= m

\* C5: every connection opened by get_gain_state, get_fem_level or
\* get_fseqbandlist is closed when the operation is over, on every exit
\* path: no call leaves a connection open.
C5_ConnectionsClosed == conns = 0

\* C8: at full cadence, for an antenna with a live sample in the window the
\* value returned at a dead time step is the stored value of the nearest
\* live time step (the earlier one on a tie); an antenna with no live
\* sample is returned as read.
C8_NearestLiveFill ==
    (IsAssembler /\ ret.status = "ok" /\ call.dt = None) =>
        \A i \in Ants : \A k \in RetSteps :
            ~LiveAt(ret.times[k], i) =>
                IF \E g \in RetSteps : LiveAt(ret.times[g], i)
                THEN RetVals(i, k) = RawVals(ret.times[NearestLive(i, k)], i)
                ELSE RetVals(i, k) = RawVals(ret.times[k], i)
\* a dead step midway between two live steps that hold different values
C8_Witness ==
    /\ call.op = "get_gain_state" /\ ret.status = "ok" /\ call.dt = None
    /\ \E i \in Ants : \E k \in RetSteps :
          /\ k > 1 /\ k < Len(ret.times)
          /\ ~LiveAt(ret.times[k], i)
          /\ LiveAt(ret.times[k - 1], i) /\ LiveAt(ret.times[k + 1], i)
          /\ RawVals(ret.times[k - 1], i) # RawVals(ret.times[k + 1], i)
          /\ RetVals(i, k) = RawVals(ret.times[k - 1], i)

\* C9: at full cadence get_gain_state (not relaxed) and get_fem_level return
\* a time step for every stored tick t with start <= t <= end, t = end
\* included.
C9_InclusiveWindow ==
    (IsAssembler /\ ret.status = "ok" /\ call.dt = None /\ ~call.relax) =>
        \A m \in DOMAIN store :
            (call.trange[1] <= store[m].ts /\ store[m].ts <= call.trange[2]) =>
                \E k \in RetSteps : ret.times[k] = store[m].ts

\* C10: with an aggregation step dt, the k-th output timestamp of
\* get_gain_state and of get_fem_level is that of the sample dt/2 ticks
\* after the first sample of the k-th bin.
FirstSampleTs ==
    LET lo == query_window(call.trange, call.dt)[1]
        S == {store[m].ts : m \in DOMAIN store} \cap {t \in (lo - 1)..(T0 + NTicks) : t >= lo}
    IN CHOOSE t \in S : \A u \in S : t <= u
C10_MidpointTimes ==
    (IsAssembler /\ ret.status = "ok" /\ call.dt # None /\ ~call.relax) =>
        \A k \in RetSteps :
            ret.times[k] = FirstSampleTs + (k - 1) * call.dt + (call.dt \div 2)

\* the levels get_fem_level returns at full cadence for the window queried
\* by the call: the repaired samples, one per stored tick
FullCadenceLevels ==
    get_fem_level(store, query_window(call.trange, call.dt), None, call.env)
\* the dt repaired samples of antenna i in the k-th bin, H (p = 0) or V
BinSamples(full, i, p, k) ==
    [d \in 1..call.dt |->
        IF p = 0 THEN full.hlev[i][(k - 1) * call.dt + d] ELSE full.vlev[i][(k - 1) * call.dt + d]]
RetFractions(i, p, k) == IF p = 0 THEN ret.hlev[i][k] ELSE ret.vlev[i][k]
FractionSum(f) == SumSeq([n \in 1..16 |-> IF (n - 1) \in DOMAIN f THEN f[n - 1] ELSE 0])

\* C11: with an aggregation step dt, get_fem_level returns for every bin,
\* antenna and polarization a mapping that gives each level the fraction of
\* the bin's dt repaired samples holding that level (Scale is the fraction
\* 1), and the fractions of a bin sum to 1.
C11_OccupancyFractions ==
    (call.op = "get_fem_level" /\ ret.status = "ok" /\ call.dt # None) =>
        LET full == FullCadenceLevels IN
        \A i \in Ants : \A p \in Pols : \A k \in RetSteps :
            LET smp == BinSamples(full, i, p, k)
                f == RetFractions(i, p, k)
            IN /\ DOMAIN f = {smp[d] : d \in 1..call.dt}
               /\ \A l \in DOMAIN f :
                     f[l] * call.dt = Cardinality({d \in 1..call.dt : smp[d] = l}) * Scale
               /\ FractionSum(f) = Scale
\* a bin of two samples at different levels: each level has one half
C11_Witness ==
    /\ call.op = "get_fem_level" /\ ret.status = "ok" /\ call.dt = 2
    /\ \E i \in Ants : \E k \in RetSteps :
          /\ Cardinality(DOMAIN ret.hlev[i][k]) = 2
          /\ \A l \in DOMAIN ret.hlev[i][k] : 2 * ret.hlev[i][k][l] = Scale

\* every stored sample is live
FullyLive == \A m \in DOMAIN store : \A i \in Ants : store[m].rows[i].ms # 0
\* what the same call returns when no dt is given
WithoutDt ==
    IF call.op = "get_gain_state"
    THEN get_gain_state(store, call.trange, None, FALSE, call.env)
    ELSE get_fem_level(store, call.trange, None, call.env)
\* the value v returned with dt = 1 stands for the full-cadence value w: the
\* attenuation itself, or the mapping that gives the level w the fraction 1
SameValue(v, w) ==
    IF call.op = "get_gain_state" THEN v = w
    ELSE DOMAIN v = {w} /\ v[w] = Scale

\* C12: on a fully live store, get_gain_state and get_fem_level called with
\* dt = 1 return the times and the per-antenna values of the same call
\* without dt.
C12_Dt1Identity ==
    (IsAssembler /\ ~call.relax /\ call.dt = 1 /\ ret.status = "ok" /\ FullyLive) =>
        \A r0 \in {WithoutDt} :
            r0.status = "ok" =>
                /\ ret.times = r0.times
                /\ \A i \in Ants : \A k \in RetSteps :
                      IF call.op = "get_gain_state"
                      THEN <<ret.h1[i][k], ret.h2[i][k], ret.v1[i][k], ret.v2[i][k]>>
                           = <<r0.h1[i][k], r0.h2[i][k], r0.v1[i][k], r0.v2[i][k]>>
                      ELSE /\ SameValue(ret.hlev[i][k], r0.hlev[i][k])
                           /\ SameValue(ret.vlev[i][k], r0.vlev[i][k])

\* ---- properties of the correctors ----------------------------------------
IsCorrector == call.op \in {"apply_gain_corr", "apply_fem_level"}
InLog(msg) == \E k \in DOMAIN ret.log : ret.log[k] = msg
SameTensors(c, d) == c.x = d.x /\ c.a = d.a /\ c.p = d.p /\ c.p2 = d.p2
\* some element of the returned tensors differs from the input
Changed == ~SameTensors(ret.cdata, call.data)

\* C1: whenever apply_gain_corr or apply_fem_level returns, the caller's
\* input record (x, a, p, p2, time, fghz) is as it was before the call.
C1_InputUntouched ==
    (IsCorrector /\ ret.status = "ok") => ret.input_after = call.data
\* each of the two has returned a copy that differs from its input
C1_Witness ==
    /\ call.op = "apply_fem_level" /\ ret.status = "ok" /\ ~ret.skipped
    /\ Changed /\ ret.input_after = call.data

\* C2: when a FEM attenuation query made for apply_gain_corr fails (the
\* reference or the source gain state comes back empty), apply_gain_corr
\* does not raise and returns data equal to its input.
C2_FailedQuerySkips ==
    (call.op = "apply_gain_corr" /\ InLog("Error reading FEM attenuations")) =>
        ret.status = "ok" /\ ret.cdata = call.data

\* C3: when the reference and the source gain state differ in band count,
\* apply_gain_corr raises nothing, prints the warning and returns tensors
\* equal to the input (every gain is 0 dB).
BandsDiffer ==
    /\ call.op = "apply_gain_corr"
    /\ ret.ref_gs.status = "ok" /\ ret.src_gs.status = "ok"
    /\ NBands(ret.ref_gs.dcmattn) # NBands(ret.src_gs.dcmattn)
C3_BandMismatchIsUnity ==
    BandsDiffer =>
        /\ ret.status = "ok"
        /\ InLog("GAINCAL2 Warning: Data and reference gain states are not compatible. No correction applied!")
        /\ SameTensors(ret.cdata, call.data)
\* a mismatch met with a source state that changes from step to step
C3_Witness ==
    /\ BandsDiffer /\ ret.status = "ok"
    /\ \E i \in Ants : \E t \in 1..Len(ret.src_gs.times) : ret.src_gs.h1[i][t] # ret.src_gs.h1[i][1]

\* C4: when the source state equals the reference state (the same four
\* attenuations for every antenna at every time step of both, the same DCM
\* base table), get_gain_corr returns an all-zero gain table and
\* apply_gain_corr returns tensors equal to the input.
SameState(src, ref) ==
    /\ src.status = "ok" /\ ref.status = "ok"
    /\ src.dcmattn = ref.dcmattn
    /\ \A i \in Ants : \A t \in 1..Len(src.times) : \A u \in 1..Len(ref.times) :
          /\ src.h1[i][t] = ref.h1[i][u] /\ src.h2[i][t] = ref.h2[i][u]
          /\ src.v1[i][t] = ref.v1[i][u] /\ src.v2[i][t] = ref.v2[i][u]
C4_Case ==
    /\ call.op \in {"apply_gain_corr", "get_gain_corr"}
    /\ ret.status = "ok"
    /\ SameState(ret.src_gs, ret.ref_gs)
C4_SameStateIsUnity ==
    C4_Case =>
        IF call.op = "apply_gain_corr" THEN SameTensors(ret.cdata, call.data)
        ELSE \A i \in Ants : \A p \in Pols : \A b \in DOMAIN ret.antgain[i][p] :
                \A t \in DOMAIN ret.antgain[i][p][b] : ret.antgain[i][p][b][t] = 0
C4_Witness ==
    /\ C4_Case /\ call.op = "get_gain_corr"
    /\ Len(ret.times) > 1 /\ Len(ret.ref_gs.times) > 1

\* C6: apply_gain_corr called with a reference time tref completes without
\* error.
C6_TrefGivenCompletes ==
    (call.op = "apply_gain_corr" /\ call.tref # <<>>) => ret.status = "ok"

\* C7: apply_gain_corr without tref, once the reference is resolved.
Resolved == call.op = "apply_gain_corr" /\ call.tref = <<>> /\ ret.origin # "none"
ScanFound == call.env.find.ok /\ call.env.find.scans # <<>>
ScanTref == call.env.find.scans[1] + 60
ScanState == get_gain_state(store, ref_window(ScanTref), None, FALSE, call.env.ref)
RelaxState == get_gain_state(store, ref_window(fallback_tref(call.data.time)), None, TRUE, call.env.relax)
NoRelaxQuery == \A k \in DOMAIN ret.queries : ~ret.queries[k].relax
FallsBack(older) == ~ScanFound \/ ScanState.status = "raised" \/ older
C7_Rule(older) ==
    Resolved =>
        IF FallsBack(older)
        THEN ret.ref_gs = RelaxState /\ ret.tref = fallback_tref(call.data.time)
        ELSE ret.ref_gs = ScanState /\ ret.tref = ScanTref /\ NoRelaxQuery
RefFem(i, p) ==
    IF p = 0 THEN median2(ret.ref_gs.h1[i]) \div 2 + median2(ret.ref_gs.h2[i]) \div 2
    ELSE median2(ret.ref_gs.v1[i]) \div 2 + median2(ret.ref_gs.v2[i]) \div 2
SrcFem(i, p, t) ==
    IF p = 0 THEN ret.src_gs.h1[i][t] + ret.src_gs.h2[i][t]
    ELSE ret.src_gs.v1[i][t] + ret.src_gs.v2[i][t]
\* g[i,p,b,t] of the claim, in fixed point
ExpectedGain(i, p, b, t) ==
    (SrcFem(i, p, t) - RefFem(i, p))
    + (ret.src_gs.dcmattn[i][p][b] - ret.ref_gs.dcmattn[i][p][b]) * Scale
\* the band (from 1) of data channel f and the source time step of sample t
BandOf(f) == band_index(call.data.fghz[f]) + 1
StepOf(t) == nearest_val_idx(call.data.time, ret.src_gs.times)[t]
\* twice the amplitude gain in dB of product pp of baseline (i, j)
ExpectedProduct(i, j, pp, b, t) ==
    CASE pp = 0 -> ExpectedGain(i, 0, b, t) + ExpectedGain(j, 0, b, t)
      [] pp = 1 -> ExpectedGain(i, 1, b, t) + ExpectedGain(j, 1, b, t)
      [] pp = 2 -> ExpectedGain(i, 0, b, t) + ExpectedGain(j, 1, b, t)
      [] pp = 3 -> ExpectedGain(i, 1, b, t) + ExpectedGain(j, 0, b, t)
C13_Case ==
    /\ call.op = "apply_gain_corr" /\ ret.status = "ok"
    /\ NBands(ret.src_gs.dcmattn) = NBands(ret.ref_gs.dcmattn)

\* C13: in apply_gain_corr (band counts equal) the gain of antenna i,
\* polarization p, band b at time step t is source minus reference of first
\* plus second attenuation, plus source minus reference DCM base; the power
\* of (i,p) is scaled by that gain, and products 0..3 of baseline (i,j),
\* i < j, by the amplitude gains (g[i,H]+g[j,H])/2, (g[i,V]+g[j,V])/2,
\* (g[i,H]+g[j,V])/2 and (g[i,V]+g[j,H])/2.
C13_GainFormula ==
    C13_Case =>
        \A f \in DOMAIN call.data.fghz : \A t \in DOMAIN call.data.time :
            /\ \A i \in Ants : \A p \in Pols :
                  ret.cdata.p[i][p][f][t].e
                      = call.data.p[i][p][f][t].e + 2 * ExpectedGain(i, p, BandOf(f), StepOf(t))
            /\ \A bl \in Baselines : \A pp \in 0..3 :
                  ret.cdata.x[bl][pp][f][t].e
                      = call.data.x[bl][pp][f][t].e
                        + ExpectedProduct(bl[1], bl[2], pp, BandOf(f), StepOf(t))
\* a baseline whose products 2 and 3 get different gains, neither that of
\* product 0 or 1
C13_Witness ==
    /\ C13_Case
    /\ \E bl \in Baselines : \E f \in DOMAIN call.data.fghz : \E t \in DOMAIN call.data.time :
          LET g(pp) == ret.cdata.x[bl][pp][f][t].e - call.data.x[bl][pp][f][t].e
          IN Cardinality({g(0), g(1), g(2), g(3)}) = 4
\* C14 -----------------------------------------------------------------
LevelCase == call.op = "apply_fem_level" /\ ret.status = "ok" /\ ~ret.skipped
Channels == DOMAIN call.data.fghz

\* C14: the 16-level curve built by apply_fem_level has, for every antenna,
\* polarization and channel, curve(l) = curve(8) + 2*(l-8) for l in 9..14
\* and curve(15) = 62.
C14_CurveExtrapolation ==
    LevelCase =>
        \A i \in Solar : \A p \in Pols : \A f \in Channels :
            /\ \A l \in 9..14 : ret.a[l][i][p][f] = ret.a[8][i][p][f] + 2 * (l - 8)
            /\ ret.a[15][i][p][f] = 62
\* a channel with a measured level 8 from which two more dB per level do
\* not lead to 62 at level 15, and a channel without a measurement
C14_Witness ==
    /\ LevelCase
    /\ \E i \in Solar : \E p \in Pols : \E f \in Channels :
          ret.a[8][i][p][f] > 0 /\ ret.a[14][i][p][f] + 2 # 62
    /\ \E i \in Solar : \E p \in Pols : \E f \in Channels : ret.a[8][i][p][f] = 0
\* C15 -----------------------------------------------------------------
\* get_fem_level returns the levels: its query succeeds and the DPP offset
\* is off
LevelsRead == call.env.lev.q1 /\ call.env.lev.dpp = "off"
StoredCurveRead == call.env.sqlok /\ attnsql # <<>>

\* C15: when apply_fem_level finds no attenuation curve for the date (the
\* stored curve cannot be read and there are no scans to measure it from),
\* the call raises nothing and returns data equal to its input.
C15_MissingCurveSkips ==
    (call.op = "apply_fem_level" /\ LevelsRead /\ ~StoredCurveRead /\ ~call.env.meas) =>
        ret.status = "ok" /\ SameTensors(ret.cdata, call.data)
\* C16 -----------------------------------------------------------------
\* the date asked for by the call, and whether the curve stored before the
\* call has to be recomputed for it
AskedDate == IF call.gctime = <<>> THEN call.data.time[1] ELSE call.gctime[1]
MustRecompute ==
    \/ ~(call.env.sqlok /\ ret.sql_before # <<>>)
    \/ AskedDate - ret.sql_before[1].time > DaySec
Recomputed == AttnRecord((AskedDate \div DaySec) * DaySec, call.env.afghz)

\* C16: when apply_fem_level recomputes the curve from the scans (the stored
\* one is absent, unreadable or more than a day older than the date asked
\* for), the recomputed curve is in the curve store when the call returns; a
\* stored curve at most a day old is used with no measurement and no write.
C16_RecomputedCurveStored ==
    LevelCase =>
        IF MustRecompute
        THEN ret.measured /\ attnsql = <<Recomputed>>
        ELSE ~ret.measured /\ attnsql = ret.sql_before
\* C17 -----------------------------------------------------------------
\* the DPP offset is on, its table is read and the band list is found
OffsetEnabled ==
    call.env.q1 /\ call.env.dpp = "on" /\ call.env.q3 /\ call.env.fseq
\* the timestamps of the dt samples of the k-th bin
BinTicks(k) == [d \in 1..call.dt |-> FirstSampleTs + (k - 1) * call.dt + d - 1]

\* C17: with an aggregation step dt and the DCM offset enabled,
\* get_gain_state and get_fem_level return, for every band b and output bin
\* k, the mean of the dt consecutive per-second offsets of band b in bin k.
C17_OffsetBinMean ==
    (IsAssembler /\ ~call.relax /\ call.dt # None /\ OffsetEnabled
        /\ \E m \in DOMAIN store : store[m].ts >= query_window(call.trange, call.dt)[1]) =>
        /\ ret.status = "ok"
        /\ ret.dcmoff # None
        /\ \A b \in DOMAIN ret.dcmoff : \A k \in RetSteps :
              ret.dcmoff[b][k] * call.dt
                  = Scale * SumSeq([d \in 1..call.dt |-> DcmOffsetAt(BinTicks(k)[d], b)])
\* C18 -----------------------------------------------------------------
\* the curve of antenna i and polarization p at the frequency fval, as
\* measured at that frequency and extended to 16 levels
CurveAt(l, i, p, fval) ==
    IF l = 15 THEN 62
    ELSE IF l >= 9 THEN MeasuredAttn(7, i, p, fval) + 2 * (l - 8)
    ELSE IF l >= 1 THEN MeasuredAttn(l - 1, i, p, fval)
    ELSE 0
\* the levels read for the call, and the gain in dB (fixed point) they give
\* antenna i and polarization p at the frequency fval and level step m
LevelsOfCall ==
    get_fem_level(store, <<call.data.time[1], call.data.time[Len(call.data.time)]>>,
                  cadence(call.data.time), call.env.lev)
GainAt(lev, i, p, fval, m) ==
    LET l == IF p = 0 THEN lev.hlev[i][m] ELSE lev.vlev[i][m]
    IN IF cadence(call.data.time) # None
       THEN SumSeq([n \in 1..16 |->
                IF (n - 1) \in DOMAIN l THEN l[n - 1] * CurveAt(n - 1, i, p, fval) ELSE 0])
       ELSE CurveAt(l, i, p, fval) * Scale
\* the frequencies of the curve used: the stored one unless it had to be
\* recomputed
CurveFghz == IF ret.measured THEN call.env.afghz ELSE ret.sql_before[1].fghz
IsCommon(fval) == \E k \in DOMAIN CurveFghz : CurveFghz[k] = fval

\* C18: in apply_fem_level, the power of a solar antenna in a data channel
\* whose frequency is also a frequency of the curve is scaled by the gain
\* the curve measured at that frequency gives, wherever the frequency stands
\* in the two frequency lists.
C18_GainFromSameFrequency ==
    LevelCase =>
        \A lev \in {LevelsOfCall} :
        \A i \in Solar : \A p \in Pols : \A f \in Channels : \A t \in DOMAIN call.data.time :
            IsCommon(call.data.fghz[f]) =>
                ret.cdata.p[i][p][f][t].e
                    = call.data.p[i][p][f][t].e
                      + 2 * GainAt(lev, i, p, call.data.fghz[f],
                                   nearest_val_idx(call.data.time, lev.times)[t])
====
